---- MODULE Spec2Model ----
(***************************************************************************)
(* PanInsight: the image viewer (ImageViewer.tsx), the upload page that    *)
(* mounts it (UploadScan.tsx) and the theme provider (ThemeContext.tsx).   *)
(*                                                                         *)
(* Numbers.  The zoom factor only ever takes values obtained from 1, 5     *)
(* and 0.1 by multiplying or dividing by 1.2, so every zoom is a rational  *)
(* 2^e2 * 3^e3 * 5^e5.  A zoom is stored as a fraction in lowest terms    *)
(* and compared exactly; numerators and denominators too large for        *)
(* machine integers are held as little-endian digit sequences.  Rounding  *)
(* of IEEE doubles is not modelled.                                        *)
(***************************************************************************)
EXTENDS Integers, Sequences, FiniteSets, TLC

VARIABLES
    viewerState,       \* [zoom, rotation, contrast, brightness]
    isDragging,        \* gesture session active
    dragStart,         \* gesture origin
    panOffset,         \* pan offset
    isImageLoaded,     \* img onLoad has fired
    isImageError,      \* img onError has fired
    imgRequest,        \* img element: "pending" until its load / error event
    showViewer,        \* UploadScan: showViewer
    fileInfo,          \* UploadScan: fileInfo.file, or NoFile for null
    preview,           \* UploadScan: fileInfo.preview, the viewer's imageSrc
    reading,           \* UploadScan: files whose preview is being read
    hasConsent,        \* UploadScan: hasConsent
    isAnalyzing,       \* UploadScan: isAnalyzing
    delays,            \* UploadScan: simulated delays of handleAnalyze running
    orphans,           \* delays started by an UploadScan since unmounted
    latest,            \* history: the valid file the user selected last
    keydownListeners,  \* document: keydown listeners the viewers have added
    report,            \* localStorage 'paninsight-report' holds a report
    route,             \* router location
    isDark,            \* ThemeProvider: isDark
    savedTheme,        \* localStorage 'paninsight-theme'
    setIsDarkQueue,    \* ThemeProvider: setIsDark calls not yet rendered
    phase,             \* "rendered": first render done, mount effects not run
    strict,            \* development build: StrictMode re-runs mount effects
    preference,        \* history: the theme the user last asked for
    defaultPrevented,  \* defaultPrevented flag of the last dispatched event
    watch,             \* history: the kinds of event lastOp tells apart
    lastOp,            \* history: the last event dispatched
    gesture            \* history: how the pointer interaction in progress began

vars == <<viewerState, isDragging, dragStart, panOffset, isImageLoaded,
          isImageError, imgRequest, showViewer, fileInfo, preview, reading,
          hasConsent, isAnalyzing, delays, orphans, latest, report, route,
          isDark,
          savedTheme, setIsDarkQueue, phase, strict, preference,
          defaultPrevented, watch, lastOp, gesture,
          keydownListeners>>

\* the upload page's own state, the stores and the theme
PageVars == <<fileInfo, reading, hasConsent, isAnalyzing, delays, orphans,
              latest, report,
              route>>
ThemeVars == <<isDark, savedTheme, setIsDarkQueue, phase, strict,
               preference>>

(***************************************************************************)
(* Bounds of the model.                                                    *)
(***************************************************************************)
MaxPan == 1        \* moves are explored while |panOffset| <= MaxPan per axis
MaxNatural == 3    \* natural width of the source image; height is one less
MaxReads == 1      \* FileReader reads in progress at a time
MaxDelays == 1     \* simulated analysis delays running at a time

(***************************************************************************)
(* Exact arithmetic.  A natural number is a sequence of digits in radix    *)
(* Radix, least significant first, without leading zeros; a positive       *)
(* rational is a fraction num/den of such numbers in lowest terms.         *)
(***************************************************************************)
Radix == 10 ^ 7

RECURSIVE BigMulCarry(_, _, _)
BigMulCarry(x, m, carry) ==
    IF x = <<>>
    THEN IF carry = 0 THEN <<>> ELSE <<carry>>
    ELSE LET v == Head(x) * m + carry
         IN  <<v % Radix>> \o BigMulCarry(Tail(x), m, v \div Radix)

\* x * m, for a natural m < 200
BigMulSmall(x, m) == IF m = 0 THEN <<>> ELSE BigMulCarry(x, m, 0)

RECURSIVE BigRemFrom(_, _, _, _)
BigRemFrom(x, p, i, r) ==
    IF i = 0 THEN r ELSE BigRemFrom(x, p, i - 1, (r * Radix + x[i]) % p)

\* x mod p, for 0 < p < 200
BigRem(x, p) == BigRemFrom(x, p, Len(x), 0)

RECURSIVE BigQuotFrom(_, _, _, _)
BigQuotFrom(x, p, i, r) ==
    IF i = 0 THEN <<>>
    ELSE LET cur == r * Radix + x[i]
         IN  BigQuotFrom(x, p, i - 1, cur % p) \o <<cur \div p>>

\* x div p, for 0 < p < 200
BigQuot(x, p) ==
    LET q == BigQuotFrom(x, p, Len(x), 0)
    IN  IF q # <<>> /\ q[Len(q)] = 0 THEN SubSeq(q, 1, Len(q) - 1) ELSE q

RECURSIVE BigLessFrom(_, _, _)
BigLessFrom(x, y, i) ==
    IF i = 0 THEN FALSE
    ELSE IF x[i] # y[i] THEN x[i] < y[i]
    ELSE BigLessFrom(x, y, i - 1)

BigLess(x, y) ==
    IF Len(x) # Len(y) THEN Len(x) < Len(y) ELSE BigLessFrom(x, y, Len(x))

BigLeq(x, y) == ~BigLess(y, x)

Big(n) == IF n = 0 THEN <<>> ELSE <<n>>     \* for 0 <= n < Radix

Frac(n, d) == [num |-> Big(n), den |-> Big(d)]   \* n/d in lowest terms

\* r * p and r / p for a prime p
MulPrime(r, p) ==
    IF BigRem(r.den, p) = 0
    THEN [num |-> r.num, den |-> BigQuot(r.den, p)]
    ELSE [num |-> BigMulSmall(r.num, p), den |-> r.den]

DivPrime(r, p) ==
    IF BigRem(r.num, p) = 0
    THEN [num |-> BigQuot(r.num, p), den |-> r.den]
    ELSE [num |-> r.num, den |-> BigMulSmall(r.den, p)]

\* r < n/d and r > n/d, for naturals n, d < 200
RatBelow(r, n, d) == BigLess(BigMulSmall(r.num, d), BigMulSmall(r.den, n))
RatAbove(r, n, d) == BigLess(BigMulSmall(r.den, n), BigMulSmall(r.num, d))

One == Frac(1, 1)

\* n * r is exactly the integer m
TimesIs(n, r, m) == BigMulSmall(r.num, n) = BigMulSmall(r.den, m)

\* the integer part of n * r, for 0 <= n * r < lim + 1
TruncTimes(n, r, lim) ==
    LET nr == BigMulSmall(r.num, n)
    IN  CHOOSE m \in 0..lim :
            /\ BigLeq(BigMulSmall(r.den, m), nr)
            /\ BigLess(nr, BigMulSmall(r.den, m + 1))

(***************************************************************************)
(* Inputs.                                                                 *)
(***************************************************************************)
Points == { [x |-> 0, y |-> 0], [x |-> 1, y |-> 0], [x |-> 0, y |-> 1] }
Aside == [x |-> 1, y |-> 0]
Keys == {"+", "=", "-", "r", "R", "0", "Escape", "a"}
Targets == {"body", "input"}               \* event target: document.body or a field
TouchCounts == {1, 2}
\* numbers handed to handleContrastChange and handleBrightnessChange; the
\* range inputs of the panel deliver those from 50 to 200
Percents == {0, 50, 150, 200, 201}
Origin == [x |-> 0, y |-> 0]

\* n * r, kept exact
Scaled(n, r) == [n |-> n, by |-> IF n = 0 THEN One ELSE r]

\* what a canvas holds after handleSave: its extents, the filter in force,
\* the context transform (translation doubled, to stay integral), and the
\* drawImage arguments (destination corner doubled)
NoBake ==
    [width |-> 0, height |-> 0, contrast |-> 100, brightness |-> 100,
     translate2 |-> Origin, angle |-> 0,
     dx2 |-> Scaled(0, One), dy2 |-> Scaled(0, One),
     dw |-> Scaled(0, One), dh |-> Scaled(0, One), painted |-> FALSE]

\* previews: a data URL of a decodable image of w x h pixels, a data URL
\* the browser cannot decode, or (kind "baked") the data URL of a canvas
SourceImage(k, w, h) == [kind |-> k, w |-> w, h |-> h, bake |-> NoBake]
Images == { SourceImage("image", MaxNatural, MaxNatural - 1),
            SourceImage("undecodable", 0, 0) }
InitialViewerState ==
    [zoom |-> One, rotation |-> 0, contrast |-> 100, brightness |-> 100]

\* no preview: fileInfo.preview undefined, imageSrc the empty string
NoPreview == SourceImage("none", 0, 0)

(***************************************************************************)
(* Files offered to the upload page.  A name is a sequence of characters,  *)
(* a MIME type its two halves; decodable tells whether the bytes are an    *)
(* image the browser can rasterize.                                        *)
(***************************************************************************)
Mime(top, sub) == [top |-> top, sub |-> sub]
File(name, type, size, decodable) ==
    [name |-> name, type |-> type, size |-> size, decodable |-> decodable]

\* fileInfo === null
NoFile == File(<<>>, Mime("", ""), 0 - 1, FALSE)

Names == { <<"s", ".", "p", "n", "g">>, <<"S", ".", "P", "N", "G">>,
           <<"s", ".", "j", "p", "g">>, <<"s", ".", "j", "p", "e", "g">>,
           <<"s", ".", "d", "c", "m">>, <<"s", ".", "D", "c", "m">>,
           <<"s", ".", "t", "x", "t">>, <<"p", "n", "g">> }
MimeTypes == { Mime("image", "jpeg"), Mime("image", "jpg"),
               Mime("image", "png"), Mime("image", "gif"),
               Mime("application", "dicom"),
               Mime("application", "octet-stream"),
               Mime("text", "plain"), Mime("", "") }
Sizes == { 1024, 50 * 1024 * 1024, 50 * 1024 * 1024 + 1 }
AllFiles == { File(n, t, z, TRUE) : n \in Names, t \in MimeTypes, z \in Sizes }

\* a picture, and a file named and typed like a picture that is not one
Picture == File(<<"s", ".", "p", "n", "g">>, Mime("image", "png"), 1024, TRUE)
Damaged == [Picture EXCEPT !.decodable = FALSE]
\* a DICOM file, for which the page makes no preview
Dicom == File(<<"s", ".", "d", "c", "m">>, Mime("application", "dicom"),
              1024, TRUE)
\* a text file, as a browser reports it and as a drop may label it
Text == File(<<"s", ".", "t", "x", "t">>, Mime("text", "plain"), 1024, TRUE)
Unlabelled == [Text EXCEPT !.type = Mime("application", "octet-stream")]

\* the files offered to the page: the text file with every name, with
\* every type and with every size, and the largest files of a good name or
\* a good type
Files ==
    { [Text EXCEPT !.name = n] : n \in Names }
    \cup { [Text EXCEPT !.type = t] : t \in MimeTypes }
    \cup { [Text EXCEPT !.size = z] : z \in Sizes }
    \cup { [Text EXCEPT !.name = <<"S", ".", "P", "N", "G">>, !.size = z] :
               z \in Sizes }
    \cup { [Unlabelled EXCEPT !.size = z] : z \in Sizes }

\* String.prototype.toLowerCase and endsWith, on the letters in use
UpperToLower == [S |-> "s", P |-> "p", N |-> "n", G |-> "g", D |-> "d",
                 C |-> "c", M |-> "m", J |-> "j", E |-> "e"]
toLowerCase(str) ==
    [i \in 1..Len(str) |->
        IF str[i] \in DOMAIN UpperToLower THEN UpperToLower[str[i]] ELSE str[i]]
endsWith(str, suffix) ==
    /\ Len(suffix) <= Len(str)
    /\ SubSeq(str, Len(str) - Len(suffix) + 1, Len(str)) = suffix

acceptedTypes == { <<".", "d", "c", "m">>, <<".", "j", "p", "g">>,
                   <<".", "j", "p", "e", "g">>, <<".", "p", "n", "g">> }
acceptedMimeTypes == { Mime("image", "jpeg"), Mime("image", "jpg"),
                       Mime("image", "png"), Mime("application", "dicom"),
                       Mime("application", "octet-stream") }

\* a validateFile that compares the name as typed
validateFileCaseSensitive(file) ==
    LET isValidType ==
            \/ \E type \in acceptedTypes : endsWith(file.name, type)
            \/ file.type \in acceptedMimeTypes
        isValidSize == file.size <= 50 * 1024 * 1024
    IN  isValidType /\ isValidSize

validateFile(file) ==
    LET isValidType ==
            \/ \E type \in acceptedTypes :
                    endsWith(toLowerCase(file.name), type)
            \/ file.type \in acceptedMimeTypes
        isValidSize == file.size <= 50 * 1024 * 1024
    IN  isValidType /\ isValidSize

\* what createFilePreview resolves to
createFilePreview(file) ==
    IF endsWith(toLowerCase(file.name), <<".", "d", "c", "m">>)
    THEN NoPreview
    ELSE IF file.type.top = "image"
    THEN IF file.decodable
         THEN SourceImage("image", MaxNatural, MaxNatural - 1)
         ELSE SourceImage("undecodable", 0, 0)
    ELSE NoPreview

\* createFilePreview settles at once unless a FileReader is started
readsFile(file) ==
    /\ ~endsWith(toLowerCase(file.name), <<".", "d", "c", "m">>)
    /\ file.type.top = "image"

(***************************************************************************)
(* Transform state operations.                                             *)
(***************************************************************************)
\* Math.min(z, 5) and Math.max(z, 0.1)
MinWith5(z) == IF RatAbove(z, 5, 1) THEN Frac(5, 1) ELSE z
MaxWithTenth(z) == IF RatBelow(z, 1, 10) THEN Frac(1, 10) ELSE z
Times12(z) == MulPrime(MulPrime(DivPrime(z, 5), 2), 3)     \* z * 1.2
Over12(z) == DivPrime(DivPrime(MulPrime(z, 5), 2), 3)      \* z / 1.2

\* handleZoom without the Math.min / Math.max clamps
handleZoomUnclamped(prev, direction) ==
    [prev EXCEPT !.zoom =
        IF direction = "in" THEN Times12(prev.zoom) ELSE Over12(prev.zoom)]

handleZoom(prev, direction) ==
    [prev EXCEPT !.zoom =
        IF direction = "in"
        THEN MinWith5(Times12(prev.zoom))
        ELSE MaxWithTenth(Over12(prev.zoom))]

\* handleRotate without the wrap at 360
handleRotateUnwrapped(prev) == [prev EXCEPT !.rotation = prev.rotation + 90]

handleRotate(prev) == [prev EXCEPT !.rotation = (prev.rotation + 90) % 360]

\* a contrast change that builds the state anew around the value
handleContrastChangeAlone(prev, value) ==
    [InitialViewerState EXCEPT !.contrast = value]

handleContrastChange(prev, value) == [prev EXCEPT !.contrast = value]

handleBrightnessChange(prev, value) == [prev EXCEPT !.brightness = value]

\* viewerState.zoom > 1
ZoomAboveOne == RatAbove(viewerState.zoom, 1, 1)

\* history records: the event, its key and target (keyboard), its pointer
\* position and touch count (pointer), the file offered (selection) and
\* whether the handler raised an alert
Op(name) == [op |-> name, key |-> "", target |-> "", at |-> Origin,
             touches |-> 0, file |-> NoFile, alert |-> FALSE]
KeyOp(k, t) == [Op("keyDown") EXCEPT !.key = k, !.target = t]
PointerOp(name, p, n) == [Op(name) EXCEPT !.at = p, !.touches = n]
FileOp(name, f, alerted) == [Op(name) EXCEPT !.file = f, !.alert = alerted]

(***************************************************************************)
(* Init: the upload page holds a previewable file, the viewer is closed.   *)
(***************************************************************************)
\* no viewer has been mounted yet
NoViewer ==
    /\ viewerState = InitialViewerState
    /\ isDragging = FALSE
    /\ dragStart = Origin
    /\ panOffset = Origin
    /\ isImageLoaded = FALSE
    /\ isImageError = FALSE
    /\ imgRequest = "none"
    /\ showViewer = FALSE
    /\ gesture = "none"
    /\ keydownListeners = 0

\* the document has just been loaded at route r: first render done, mount
\* effects still to run; localStorage may hold a theme and a report
Loaded(watched, r) ==
    /\ NoViewer
    /\ fileInfo = NoFile
    /\ preview = NoPreview
    /\ reading = {}
    /\ hasConsent = FALSE
    /\ isAnalyzing = FALSE
    /\ delays = 0
    /\ orphans = 0
    /\ latest = fileInfo
    /\ report \in BOOLEAN
    /\ r = "/report" => report
    /\ route = r
    /\ isDark = FALSE
    /\ savedTheme \in {"none", "dark", "light"}
    /\ setIsDarkQueue = <<>>
    /\ phase = "rendered"
    /\ strict \in BOOLEAN
    /\ preference = savedTheme
    /\ defaultPrevented = FALSE
    /\ lastOp = Op("init")
    /\ watch = watched

\* the upload page, settled in the light theme, with no file selected
EmptyPage(watched) ==
    /\ NoViewer
    /\ fileInfo = NoFile
    /\ preview = NoPreview
    /\ reading = {}
    /\ hasConsent = FALSE
    /\ isAnalyzing = FALSE
    /\ delays = 0
    /\ orphans = 0
    /\ latest = fileInfo
    /\ report = FALSE
    /\ route = "/upload"
    /\ isDark = FALSE
    /\ savedTheme = "light"
    /\ setIsDarkQueue = <<>>
    /\ phase = "idle"
    /\ strict = FALSE
    /\ preference = "light"
    /\ defaultPrevented = FALSE
    /\ lastOp = Op("init")
    /\ watch = watched

\* the upload page with a file selected and previewed
StartIn(watched, modes) ==
    /\ viewerState = InitialViewerState
    /\ isDragging = FALSE
    /\ dragStart = Origin
    /\ panOffset = Origin
    /\ isImageLoaded = FALSE
    /\ isImageError = FALSE
    /\ imgRequest = "none"
    /\ showViewer = FALSE
    /\ fileInfo \in {Picture, Damaged}
    /\ preview = createFilePreview(fileInfo)
    /\ reading = {}
    /\ hasConsent = FALSE
    /\ isAnalyzing = FALSE
    /\ delays = 0
    /\ orphans = 0
    /\ latest = fileInfo
    /\ report = FALSE
    /\ route = "/upload"
    /\ isDark = FALSE
    /\ savedTheme = "light"
    /\ setIsDarkQueue = <<>>
    /\ phase = "idle"
    /\ strict \in modes
    /\ preference = "light"
    /\ defaultPrevented = FALSE
    /\ lastOp = Op("init")
    /\ watch = watched
    /\ gesture = "none"
    /\ keydownListeners = 0

\* the same in a production build
Start(watched) == StartIn(watched, {FALSE})

\* the viewer is rendered: showViewer && fileInfo, on the upload route
ViewerMounted == showViewer /\ fileInfo # NoFile /\ route = "/upload"

\* the keydown effect: document.addEventListener('keydown', handleKeyDown)
\* with the handleKeyDown this run of the effect has created
keydownEffect(n) == n + 1

\* a cleanup that hands removeEventListener a function never registered
keydownCleanupOfAnotherHandler(n) == n

\* its cleanup: removeEventListener with the same function
keydownCleanup(n) == IF n > 0 THEN n - 1 ELSE 0

\* the effects of a mount: run once, and under StrictMode torn down and run
\* again; a viewer this one replaces is cleaned up first
ViewerMounts ==
    LET n == IF ViewerMounted THEN keydownCleanup(keydownListeners)
             ELSE keydownListeners
    IN  keydownListeners' =
            IF strict THEN keydownEffect(keydownCleanup(keydownEffect(n)))
            ELSE keydownEffect(n)

\* a render of UploadScan passes a new onClose function to a mounted
\* viewer: the effect, which depends on onClose, is cleaned up and run again
ViewerRerendered ==
    keydownListeners' =
        IF ViewerMounted
        THEN keydownEffect(keydownCleanup(keydownListeners))
        ELSE keydownListeners

\* a mounted viewer is unmounted: the cleanup runs
ViewerUnmounts ==
    keydownListeners' =
        IF ViewerMounted THEN keydownCleanup(keydownListeners)
        ELSE keydownListeners

\* a freshly mounted viewer: every useState at its initial value
FreshViewer ==
    /\ viewerState' = InitialViewerState
    /\ isDragging' = FALSE
    /\ dragStart' = Origin
    /\ panOffset' = Origin
    /\ isImageLoaded' = FALSE
    /\ isImageError' = FALSE
    /\ imgRequest' = "pending"
    /\ gesture' = "none"
    /\ ViewerMounts

\* unmounting: no handler of the viewer runs any more; its last state is kept
\* for inspection until the next mount replaces it
Unmounted ==
    UNCHANGED <<viewerState, isDragging, dragStart, panOffset, isImageLoaded,
                isImageError, imgRequest, gesture>>

\* the history tells apart the events of the watched kinds only
Note(op) == /\ lastOp' = IF op.op \in watch THEN op ELSE Op("other")
            /\ watch' = watch

\* an event handled by the viewer, other than those of its img element:
\* the image request, the page it lies over and the theme keep their state
ViewerEvent == /\ ViewerMounted
               /\ UNCHANGED <<PageVars, ThemeVars, imgRequest>>

\* such an event when it leaves the viewer mounted: its callbacks are
\* memoized and onClose is the same, so the keydown effect is not run again
InViewer == /\ ViewerEvent
            /\ UNCHANGED keydownListeners

\* an event that reaches no preventDefault() call
Plain(op) == /\ Note(op)
             /\ defaultPrevented' = FALSE

\* an event whose handler called preventDefault()
Prevented(op) == /\ Note(op)
                 /\ defaultPrevented' = TRUE

\* the View button, rendered when the selected file has a preview
OpenViewer ==
    /\ route = "/upload"
    /\ fileInfo # NoFile
    /\ ~showViewer
    /\ preview.kind \notin {"none", "baked"}
    /\ UNCHANGED <<PageVars, ThemeVars>>
    /\ showViewer' = TRUE
    /\ FreshViewer
    /\ Plain(Op("open"))
    /\ UNCHANGED preview

\* onClose as passed by UploadScan: unmounts the viewer
onClose ==
    /\ showViewer' = FALSE
    /\ Unmounted
    /\ ViewerUnmounts

CloseButton ==
    /\ ViewerEvent
    /\ onClose
    /\ Plain(Op("close"))
    /\ UNCHANGED preview

ZoomButton(direction) ==
    /\ InViewer
    /\ viewerState' = handleZoom(viewerState, direction)
    /\ Plain(Op(IF direction = "in" THEN "zoomIn" ELSE "zoomOut"))
    /\ UNCHANGED <<isDragging, dragStart, panOffset, isImageLoaded,
                   isImageError, showViewer, preview, gesture>>

RotateButton ==
    /\ InViewer
    /\ viewerState' = handleRotate(viewerState)
    /\ Plain(Op("rotate"))
    /\ UNCHANGED <<isDragging, dragStart, panOffset, isImageLoaded,
                   isImageError, showViewer, preview, gesture>>

ContrastSlider(value) ==
    /\ InViewer
    /\ viewerState' = handleContrastChange(viewerState, value)
    /\ Plain(Op("setContrast"))
    /\ UNCHANGED <<isDragging, dragStart, panOffset, isImageLoaded,
                   isImageError, showViewer, preview, gesture>>

BrightnessSlider(value) ==
    /\ InViewer
    /\ viewerState' = handleBrightnessChange(viewerState, value)
    /\ Plain(Op("setBrightness"))
    /\ UNCHANGED <<isDragging, dragStart, panOffset, isImageLoaded,
                   isImageError, showViewer, preview, gesture>>

\* handleReset without its setPanOffset call
handleResetKeepingPan ==
    /\ viewerState' = InitialViewerState
    /\ panOffset' = panOffset

\* the state changes of handleReset
handleReset ==
    /\ viewerState' = InitialViewerState
    /\ panOffset' = Origin

\* history: a reset that falls into a session begun by an accepted press
GestureAfterReset ==
    IF "gesture" \in watch /\ gesture = "accepted" THEN "reset" ELSE gesture

ResetButton ==
    /\ InViewer
    /\ handleReset
    /\ gesture' = GestureAfterReset
    /\ Plain(Op("reset"))
    /\ UNCHANGED <<isDragging, dragStart, isImageLoaded, isImageError,
                   showViewer, preview>>

(***************************************************************************)
(* Render: the inline style of the img element.                            *)
(***************************************************************************)
\* n / r, kept exact
Over(n, r) == Scaled(n, [num |-> r.den, den |-> r.num])

\* style.transform and style.filter of the img
imgStyle(vs, pan) ==
    [scale |-> vs.zoom,
     rotate |-> vs.rotation,
     translate |-> [x |-> Over(pan.x, vs.zoom), y |-> Over(pan.y, vs.zoom)],
     contrast |-> vs.contrast,
     brightness |-> vs.brightness]

(***************************************************************************)
(* Pointer / touch tracker.                                                *)
(***************************************************************************)
Minus(p, q) == [x |-> p.x - q.x, y |-> p.y - q.y]
Abs(n) == IF n < 0 THEN 0 - n ELSE n
InPanRange(p) == Abs(p.x) <= MaxPan /\ Abs(p.y) <= MaxPan

\* the press guard without its zoom test
PressAcceptedAtAnyZoom(n) == n = 1

\* handleMouseDown / handleTouchStart: does the press start a session
PressAccepted(n) == ZoomAboveOne /\ n = 1

\* a move guard without the touch count test
MoveAcceptedAnyTouches(n) == isDragging /\ ZoomAboveOne

\* handleMouseMove / handleTouchMove: does the move update the offset
MoveAccepted(n) == isDragging /\ ZoomAboveOne /\ n = 1

\* a press that forgets the offset already accumulated
dragStartIgnoringPan(p) == p

\* setDragStart argument
dragStartFor(p) == Minus(p, panOffset)

\* a move that adds its distance from the origin to the offset it finds
panOffsetAccumulating(p) ==
    [x |-> panOffset.x + (p.x - dragStart.x),
     y |-> panOffset.y + (p.y - dragStart.y)]

\* setPanOffset argument
panOffsetFor(p) == Minus(p, dragStart)

\* history of the interaction in progress, kept when gestures are watched
TrackGesture(g) == gesture' = IF "gesture" \in watch THEN g ELSE gesture

GestureAfterPress(accepted) ==
    IF accepted THEN "accepted"
    ELSE IF gesture # "none" THEN gesture
    ELSE IF ZoomAboveOne THEN "ignored" ELSE "rejected"

Press(name, p, n) ==
    /\ InViewer
    /\ IF PressAccepted(n)
       THEN /\ isDragging' = TRUE
            /\ dragStart' = dragStartFor(p)
       ELSE UNCHANGED <<isDragging, dragStart>>
    /\ TrackGesture(GestureAfterPress(PressAccepted(n)))
    /\ Plain(PointerOp(name, p, n))
    /\ UNCHANGED <<viewerState, panOffset, isImageLoaded, isImageError,
                   showViewer, preview>>

MouseDown(p) == Press("mouseDown", p, 1)

TouchStart(p, n) == Press("touchStart", p, n)

MouseMove(p) ==
    /\ InViewer
    /\ IF MoveAccepted(1)
       THEN /\ InPanRange(panOffsetFor(p))
            /\ panOffset' = panOffsetFor(p)
       ELSE UNCHANGED panOffset
    /\ Plain(PointerOp("mouseMove", p, 1))
    /\ UNCHANGED <<viewerState, isDragging, dragStart, isImageLoaded,
                   isImageError, showViewer, preview, gesture>>

TouchMove(p, n) ==
    /\ InViewer
    /\ IF MoveAccepted(n)
       THEN /\ InPanRange(panOffsetFor(p))
            /\ panOffset' = panOffsetFor(p)
            /\ Prevented(PointerOp("touchMove", p, n))
       ELSE /\ UNCHANGED panOffset
            /\ Plain(PointerOp("touchMove", p, n))
    /\ UNCHANGED <<viewerState, isDragging, dragStart, isImageLoaded,
                   isImageError, showViewer, preview, gesture>>

\* handleMouseUp (mouse up, mouse leave) and handleTouchEnd
Release(name) ==
    /\ InViewer
    /\ isDragging' = FALSE
    /\ TrackGesture("none")
    /\ Plain(Op(name))
    /\ UNCHANGED <<viewerState, dragStart, panOffset, isImageLoaded,
                   isImageError, showViewer, preview>>

MouseUp == Release("mouseUp")

\* a container without the onMouseLeave binding
MouseLeaveUnbound ==
    /\ InViewer
    /\ Plain(Op("mouseLeave"))
    /\ UNCHANGED <<viewerState, isDragging, dragStart, panOffset,
                   isImageLoaded, isImageError, showViewer, preview,
                   gesture>>

MouseLeave == Release("mouseLeave")

TouchEnd == Release("touchEnd")

ContextMenu ==
    /\ InViewer
    /\ Prevented(Op("contextMenu"))
    /\ UNCHANGED <<viewerState, isDragging, dragStart, panOffset,
                   isImageLoaded, isImageError, showViewer, preview,
                   gesture>>

(***************************************************************************)
(* Keyboard command router.                                                *)
(***************************************************************************)
\* a router that does not look at the event target
targetAny(t) == TRUE

\* the guard of handleKeyDown: e.target === document.body
targetIsBody(t) == t = "body"

\* a switch without the '=' and 'R' labels
keyCommandWithoutAliases(k) ==
    CASE k = "+" -> "zoomIn"
      [] k = "-" -> "zoomOut"
      [] k = "r" -> "rotate"
      [] k = "0" -> "reset"
      [] k = "Escape" -> "close"
      [] OTHER -> "none"

\* the switch of handleKeyDown
keyCommand(k) ==
    CASE k \in {"+", "="} -> "zoomIn"
      [] k = "-" -> "zoomOut"
      [] k \in {"r", "R"} -> "rotate"
      [] k = "0" -> "reset"
      [] k = "Escape" -> "close"
      [] OTHER -> "none"

\* handleKeyDown, on the state the setters of one event have produced so
\* far (zoom and rotation are functional updates)
handleKeyDown(st, k, t) ==
    IF ~targetIsBody(t) THEN st
    ELSE CASE keyCommand(k) = "zoomIn" ->
                [st EXCEPT !.viewerState = handleZoom(@, "in"),
                           !.prevented = TRUE]
           [] keyCommand(k) = "zoomOut" ->
                [st EXCEPT !.viewerState = handleZoom(@, "out"),
                           !.prevented = TRUE]
           [] keyCommand(k) = "rotate" ->
                [st EXCEPT !.viewerState = handleRotate(@),
                           !.prevented = TRUE]
           [] keyCommand(k) = "reset" ->                    \* handleReset()
                [st EXCEPT !.viewerState = InitialViewerState,
                           !.panOffset = Origin,
                           !.prevented = TRUE]
           [] keyCommand(k) = "close" ->                    \* onClose()
                [st EXCEPT !.showViewer = FALSE, !.prevented = TRUE]
           [] OTHER -> st

\* the document dispatches the event to each of the n listeners registered
RECURSIVE dispatchKeyDown(_, _, _, _)
dispatchKeyDown(n, st, k, t) ==
    IF n = 0 THEN st
    ELSE dispatchKeyDown(n - 1, handleKeyDown(st, k, t), k, t)

\* a key pressed while the upload page is shown, the viewer open or not
KeyDown(k, t) ==
    /\ route = "/upload"
    /\ phase = "idle"
    /\ UNCHANGED <<PageVars, ThemeVars, imgRequest, preview, isDragging,
                   dragStart, isImageLoaded, isImageError>>
    /\ LET st == dispatchKeyDown(keydownListeners,
                                 [viewerState |-> viewerState,
                                  panOffset |-> panOffset,
                                  showViewer |-> showViewer,
                                  prevented |-> FALSE], k, t)
       IN  /\ viewerState' = st.viewerState
           /\ panOffset' = st.panOffset
           /\ showViewer' = st.showViewer
           /\ defaultPrevented' = st.prevented
           /\ IF st.showViewer # showViewer
              THEN ViewerUnmounts
              ELSE UNCHANGED keydownListeners
    /\ gesture' = IF /\ keydownListeners > 0
                     /\ targetIsBody(t)
                     /\ keyCommand(k) = "reset"
                  THEN GestureAfterReset ELSE gesture
    /\ Note(IF keydownListeners > 0 THEN KeyOp(k, t)
            ELSE [KeyOp(k, t) EXCEPT !.op = "keyUnheard"])

(***************************************************************************)
(* Image element.                                                          *)
(***************************************************************************)
\* the img element is rendered unless the error placeholder is shown
ImgMounted == ViewerMounted /\ ~isImageError

ImgOnLoad ==
    /\ ImgMounted
    /\ imgRequest = "pending"
    /\ preview.kind \in {"image", "baked"}
    /\ isImageLoaded' = TRUE
    /\ imgRequest' = "none"
    /\ UNCHANGED <<PageVars, ThemeVars, keydownListeners>>
    /\ Plain(Op("load"))
    /\ UNCHANGED <<viewerState, isDragging, dragStart, panOffset,
                   isImageError, showViewer, preview, gesture>>

\* an empty src makes the browser fire error as well, if React renders the
\* attribute at all
ImgOnError ==
    /\ ImgMounted
    /\ imgRequest = "pending"
    /\ preview.kind \in {"undecodable", "none"}
    /\ isImageError' = TRUE
    /\ imgRequest' = "none"
    /\ UNCHANGED <<PageVars, ThemeVars, keydownListeners>>
    /\ Plain(Op("error"))
    /\ UNCHANGED <<viewerState, isDragging, dragStart, panOffset,
                   isImageLoaded, showViewer, preview, gesture>>

(***************************************************************************)
(* Bake / export stage.                                                    *)
(***************************************************************************)
\* canvas.width and canvas.height are unsigned long attributes: the number
\* assigned is truncated to an integer
CanvasExtent(n, zoom) == TruncTimes(n, zoom, 5 * n)

\* an export that swaps the extents for quarter turns
handleSaveSwappingExtents(vs, pan, nw, nh, decoded) ==
    LET quarter == vs.rotation \in {90, 270}
        cw == CanvasExtent(IF quarter THEN nh ELSE nw, vs.zoom)
        ch == CanvasExtent(IF quarter THEN nw ELSE nh, vs.zoom)
    IN  [width |-> cw, height |-> ch,
         contrast |-> vs.contrast, brightness |-> vs.brightness,
         translate2 |-> IF vs.rotation # 0 THEN [x |-> cw, y |-> ch] ELSE Origin,
         angle |-> vs.rotation,
         dx2 |-> IF vs.rotation # 0 THEN Scaled(0 - nw, vs.zoom) ELSE Scaled(0, One),
         dy2 |-> IF vs.rotation # 0 THEN Scaled(0 - nh, vs.zoom) ELSE Scaled(0, One),
         dw |-> Scaled(nw, vs.zoom), dh |-> Scaled(nh, vs.zoom),
         painted |-> decoded]

\* an export that shifts the drawing by the pan offset, as the live view does
handleSaveWithPan(vs, pan, nw, nh, decoded) ==
    LET cw == CanvasExtent(nw, vs.zoom)
        ch == CanvasExtent(nh, vs.zoom)
    IN  [width |-> cw, height |-> ch,
         contrast |-> vs.contrast, brightness |-> vs.brightness,
         translate2 |-> IF vs.rotation # 0
                        THEN [x |-> cw + 2 * pan.x, y |-> ch + 2 * pan.y]
                        ELSE [x |-> 2 * pan.x, y |-> 2 * pan.y],
         angle |-> vs.rotation,
         dx2 |-> IF vs.rotation # 0 THEN Scaled(0 - nw, vs.zoom) ELSE Scaled(0, One),
         dy2 |-> IF vs.rotation # 0 THEN Scaled(0 - nh, vs.zoom) ELSE Scaled(0, One),
         dw |-> Scaled(nw, vs.zoom), dh |-> Scaled(nh, vs.zoom),
         painted |-> decoded]

\* handleSave past its two early returns: the canvas handed to onSave.
\* nw, nh are img.naturalWidth and img.naturalHeight, decoded tells whether
\* drawImage has pixels to draw; pan is the panOffset of the component.
handleSave(vs, pan, nw, nh, decoded) ==
    LET cw == CanvasExtent(nw, vs.zoom)
        ch == CanvasExtent(nh, vs.zoom)
    IN  [width |-> cw, height |-> ch,
         contrast |-> vs.contrast, brightness |-> vs.brightness,
         translate2 |-> IF vs.rotation # 0 THEN [x |-> cw, y |-> ch] ELSE Origin,
         angle |-> vs.rotation,
         dx2 |-> IF vs.rotation # 0 THEN Scaled(0 - nw, vs.zoom) ELSE Scaled(0, One),
         dy2 |-> IF vs.rotation # 0 THEN Scaled(0 - nh, vs.zoom) ELSE Scaled(0, One),
         dw |-> Scaled(nw, vs.zoom), dh |-> Scaled(nh, vs.zoom),
         painted |-> decoded]

\* an onSave that puts the view back to its defaults once the image is baked
handleSaveImageResettingView(editedImageData) ==
    /\ preview' = [kind |-> "baked", w |-> editedImageData.width,
                   h |-> editedImageData.height, bake |-> editedImageData]
    /\ showViewer' = FALSE
    /\ viewerState' = InitialViewerState
    /\ panOffset' = Origin
    /\ UNCHANGED <<isDragging, dragStart, isImageLoaded, isImageError,
                   imgRequest, gesture>>
    /\ ViewerUnmounts

\* UploadScan.handleSaveImage, the onSave of the viewer
handleSaveImage(editedImageData) ==
    /\ preview' = [kind |-> "baked", w |-> editedImageData.width,
                   h |-> editedImageData.height, bake |-> editedImageData]
    /\ showViewer' = FALSE
    /\ Unmounted
    /\ ViewerUnmounts

\* Save Image.  ctx: getContext('2d') returned a context.  avail: the img
\* element already reports its natural dimensions (always so once loaded).
SaveButton(ctx, avail) ==
    /\ ViewerEvent
    /\ isImageLoaded /\ imgRequest = "none" => avail
    /\ IF ~ImgMounted \/ ~ctx
       THEN /\ Plain(Op(IF ctx THEN "save" ELSE "saveNoSurface"))
            /\ UNCHANGED <<viewerState, isDragging, dragStart, panOffset,
                           isImageLoaded, isImageError, showViewer, preview,
                           gesture, keydownListeners>>
       ELSE /\ handleSaveImage(
                  handleSave(viewerState, panOffset,
                             IF avail THEN preview.w ELSE 0,
                             IF avail THEN preview.h ELSE 0,
                             isImageLoaded /\ avail))
            /\ Plain(Op("save"))

(***************************************************************************)
(* Upload page.  The viewer overlay does not trap the keyboard focus, so   *)
(* the controls of the page stay within reach while the viewer is open.    *)
(***************************************************************************)
\* an event handled by the upload page
InPage == /\ route = "/upload"
          /\ phase = "idle"
          /\ UNCHANGED ThemeVars

\* a viewer that starts afresh whenever its imageSrc changes
setFileInfoRemounting(file, pv) ==
    /\ fileInfo' = file
    /\ preview' = pv
    /\ IF showViewer /\ (fileInfo = NoFile \/ pv # preview)
       THEN FreshViewer
       ELSE Unmounted /\ ViewerRerendered

\* setFileInfo({ file, preview, size }) and the render that follows: a
\* viewer left without a file by handleReset is mounted anew; a mounted one
\* keeps its state, and its img element, if rendered, fetches the new src
setFileInfo(file, pv) ==
    /\ fileInfo' = file
    /\ preview' = pv
    /\ IF showViewer /\ fileInfo = NoFile
       THEN FreshViewer
       ELSE /\ imgRequest' = IF ImgMounted /\ pv # preview
                             THEN "pending" ELSE imgRequest
            /\ UNCHANGED <<viewerState, isDragging, dragStart, panOffset,
                           isImageLoaded, isImageError, gesture>>
            /\ ViewerRerendered

\* the history entry of a selection that ends in setFileInfo
SelectedOp(file) ==
    FileOp(IF showViewer /\ fileInfo = NoFile THEN "mount" ELSE "select",
           file, FALSE)

\* a rejection that also drops the file selected before
rejectFileClearing ==
    /\ fileInfo' = NoFile
    /\ preview' = NoPreview
    /\ UNCHANGED <<reading, hasConsent, isAnalyzing, delays, orphans, latest,
                   report, route, showViewer>>
    /\ Unmounted
    /\ ViewerUnmounts

\* handleFileSelect on a file that fails validateFile: alert and return
rejectFile ==
    /\ UNCHANGED <<fileInfo, preview, reading, hasConsent, isAnalyzing,
                   delays, orphans, latest, report, route, showViewer,
                   keydownListeners>>
    /\ Unmounted

\* handleFileSelect, up to the await: a file that needs no FileReader is
\* selected at once
handleFileSelect(file) ==
    /\ InPage
    /\ IF ~validateFile(file)
       THEN /\ rejectFile
            /\ Plain(FileOp("select", file, TRUE))
       ELSE IF readsFile(file)
       THEN /\ Cardinality(reading \cup {file}) <= MaxReads
            /\ reading' = reading \cup {file}
            /\ latest' = file
            /\ UNCHANGED <<fileInfo, preview, hasConsent, isAnalyzing,
                           delays, orphans, report, route, showViewer,
                           keydownListeners>>
            /\ Unmounted
            /\ Plain(FileOp("select", file, FALSE))
       ELSE /\ setFileInfo(file, createFilePreview(file))
            /\ latest' = file
            /\ UNCHANGED <<reading, hasConsent, isAnalyzing, delays, orphans,
                           report,
                           route, showViewer>>
            /\ Plain(SelectedOp(file))

\* handleFileSelect, after the await: reader.onload resolves the preview
FileRead(file) ==
    /\ InPage
    /\ file \in reading
    /\ reading' = reading \ {file}
    /\ setFileInfo(file, createFilePreview(file))
    /\ UNCHANGED <<hasConsent, isAnalyzing, delays, orphans, latest, report,
                   route,
                   showViewer>>
    /\ Plain(IF showViewer /\ fileInfo = NoFile
             THEN Op("mount") ELSE Op("fileRead"))

ConsentCheckbox(checked) ==
    /\ InPage
    /\ hasConsent' = checked
    /\ UNCHANGED <<fileInfo, preview, reading, isAnalyzing, delays, orphans,
                   latest, report,
                   route, showViewer>>
    /\ Unmounted
    /\ ViewerRerendered
    /\ Plain(Op("consent"))

\* a handleAnalyze that asks for a file only
analyzeGuardFileOnly == fileInfo # NoFile

\* handleAnalyze goes on past its first line
analyzeGuard == fileInfo # NoFile /\ hasConsent

\* handleAnalyze up to the await; the call is made in any state of the page,
\* the disabled attribute of the button (canAnalyze) being no part of it
handleAnalyze ==
    /\ InPage
    /\ IF analyzeGuard
       THEN /\ delays + orphans < MaxDelays
            /\ isAnalyzing' = TRUE
            /\ delays' = delays + 1
            /\ ViewerRerendered
       ELSE UNCHANGED <<isAnalyzing, delays, keydownListeners>>
    /\ UNCHANGED <<fileInfo, preview, reading, hasConsent, orphans, latest,
                   report, route, showViewer>>
    /\ Unmounted
    /\ Plain(Op("analyze"))

\* the state of an UploadScan that was just mounted, or is not mounted
FreshPage ==
    /\ fileInfo' = NoFile
    /\ preview' = NoPreview
    /\ reading' = {}
    /\ latest' = NoFile
    /\ hasConsent' = FALSE
    /\ isAnalyzing' = FALSE
    /\ showViewer' = FALSE
    /\ Unmounted
    /\ ViewerUnmounts

\* the delays of an UploadScan go on running when it is unmounted
Orphaned ==
    /\ delays' = 0
    /\ orphans' = orphans + delays

\* handleAnalyze after the delay, when nothing throws: the report is stored
\* and the router leaves the page, which unmounts it; the closure uses the
\* fileInfo it captured when the delay began
AnalysisDone ==
    /\ phase = "idle"
    /\ delays + orphans > 0
    /\ delays' = 0
    /\ orphans' = delays + orphans - 1
    /\ report' = TRUE
    /\ route' = "/report"
    /\ FreshPage
    /\ UNCHANGED ThemeVars
    /\ Plain(Op("analysisDone"))

\* a handleAnalyze whose catch block is not followed by the finally block
AnalysisFailedWithoutFinally(own) ==
    /\ phase = "idle"
    /\ IF own
       THEN /\ delays > 0
            /\ delays' = delays - 1
            /\ UNCHANGED orphans
       ELSE /\ orphans > 0
            /\ orphans' = orphans - 1
            /\ UNCHANGED delays
    /\ UNCHANGED <<fileInfo, preview, reading, hasConsent, isAnalyzing,
                   latest, report, route, showViewer, ThemeVars,
                   keydownListeners>>
    /\ Unmounted
    /\ Plain(FileOp(IF own THEN "analysisFailed" ELSE "orphanFailed",
                    NoFile, TRUE))

\* handleAnalyze after the delay, when localStorage.setItem throws (storage
\* full or refused): the catch block alerts, nothing is stored and navigate
\* is not reached; the finally block calls setIsAnalyzing(false), which
\* changes the UploadScan that started the delay if it is still mounted
AnalysisFailed(own) ==
    /\ phase = "idle"
    /\ IF own
       THEN /\ delays > 0
            /\ delays' = delays - 1
            /\ isAnalyzing' = FALSE
            /\ ViewerRerendered
            /\ UNCHANGED orphans
       ELSE /\ orphans > 0
            /\ orphans' = orphans - 1
            /\ UNCHANGED <<delays, isAnalyzing, keydownListeners>>
    /\ UNCHANGED <<fileInfo, preview, reading, hasConsent, latest, report,
                   route, showViewer, ThemeVars>>
    /\ Unmounted
    /\ Plain(FileOp(IF own THEN "analysisFailed" ELSE "orphanFailed",
                    NoFile, TRUE))

\* UploadScan.handleReset (the Reset button of the page)
UploadReset ==
    /\ InPage
    /\ fileInfo' = NoFile
    /\ preview' = NoPreview
    /\ hasConsent' = FALSE
    /\ isAnalyzing' = FALSE
    /\ latest' = NoFile
    /\ UNCHANGED <<reading, delays, orphans, report, route, showViewer>>
    /\ Unmounted
    /\ ViewerUnmounts
    /\ Plain(Op("pageReset"))

(***************************************************************************)
(* Theme provider and router.  The passive effects of one commit run in    *)
(* one go, those of a child before those of its parent; the setIsDark      *)
(* calls they make are rendered afterwards.                                *)
(***************************************************************************)
\* "read": the first effect of ThemeProvider; "write": its second;
\* "pageWrite": the theme effect of UploadScan.  dark is the isDark of the
\* render the effects belong to.
RunEffect(e, st, dark) ==
    IF e = "read"
    THEN [st EXCEPT !.queue =
             Append(@, IF st.saved = "dark" THEN "true" ELSE "false")]
    ELSE [st EXCEPT !.saved = IF dark THEN "dark" ELSE "light"]

RECURSIVE RunEffects(_, _, _)
RunEffects(es, st, dark) ==
    IF es = <<>> THEN st
    ELSE RunEffects(Tail(es), RunEffect(Head(es), st, dark), dark)

\* the effects of the first commit, and those that depend on isDark
MountEffectList(r) ==
    IF r = "/upload" THEN <<"pageWrite", "read", "write">>
    ELSE <<"read", "write">>
UpdateEffectList(r) ==
    IF r = "/upload" THEN <<"pageWrite", "write">> ELSE <<"write">>

\* setIsDark(value) and setIsDark(prev => !prev), applied in order
RECURSIVE ApplyUpdates(_, _)
ApplyUpdates(queue, dark) ==
    IF queue = <<>> THEN dark
    ELSE ApplyUpdates(Tail(queue),
                      IF Head(queue) = "toggle" THEN ~dark
                      ELSE Head(queue) = "true")

\* a state in which nothing of the theme is left to run
Settled == phase = "idle" /\ setIsDarkQueue = <<>>

\* the mount effects; under StrictMode (development build) they are run,
\* torn down and run again before anything is rendered
MountEffects ==
    /\ phase = "rendered"
    /\ LET once == MountEffectList(route)
           st == RunEffects(IF strict THEN once \o once ELSE once,
                            [saved |-> savedTheme, queue |-> <<>>], isDark)
       IN  /\ savedTheme' = st.saved
           /\ setIsDarkQueue' = st.queue
    /\ phase' = "idle"
    /\ UNCHANGED <<isDark, strict, preference, PageVars, showViewer, preview,
                   keydownListeners>>
    /\ Unmounted
    /\ Plain(Op("mountEffects"))

\* the render of the queued setIsDark calls and the effects it triggers
Rerender ==
    /\ phase = "idle"
    /\ setIsDarkQueue # <<>>
    /\ LET dark == ApplyUpdates(setIsDarkQueue, isDark)
       IN  /\ isDark' = dark
           /\ savedTheme' =
                 IF dark = isDark THEN savedTheme
                 ELSE RunEffects(UpdateEffectList(route),
                                 [saved |-> savedTheme, queue |-> <<>>],
                                 dark).saved
    /\ setIsDarkQueue' = <<>>
    /\ UNCHANGED <<phase, strict, preference, PageVars, showViewer, preview>>
    /\ Unmounted
    /\ ViewerRerendered
    /\ Plain(Op("rerender"))

\* the theme toggle, pressed on a settled page: the user asks for the
\* opposite of what is shown
toggleTheme ==
    /\ Settled
    /\ setIsDarkQueue' = <<"toggle">>
    /\ preference' = IF isDark THEN "light" ELSE "dark"
    /\ UNCHANGED <<isDark, savedTheme, phase, strict, PageVars, showViewer,
                   preview>>
    /\ Unmounted
    /\ UNCHANGED keydownListeners
    /\ Plain(Op("toggleTheme"))

\* a link or the back button: the page left is unmounted; UploadScan, when
\* it is the page entered, runs its theme effect as it mounts.  The report
\* page sends a visitor without a report to the upload page.
Navigate(r) ==
    /\ Settled
    /\ r # route
    /\ r = "/report" => report
    /\ route' = r
    /\ FreshPage
    /\ savedTheme' = IF r = "/upload"
                     THEN RunEffects(<<"pageWrite">>,
                                     [saved |-> savedTheme, queue |-> <<>>],
                                     isDark).saved
                     ELSE savedTheme
    /\ IF route = "/upload" THEN Orphaned ELSE UNCHANGED <<delays, orphans>>
    /\ UNCHANGED <<report, isDark, setIsDarkQueue, phase, strict,
                   preference>>
    /\ Plain(Op("navigate"))

\* the document is loaded again: every component state starts over, timers
\* are gone, localStorage stays
Reload ==
    /\ Settled
    /\ isDark' = FALSE
    /\ phase' = "rendered"
    /\ preference' = savedTheme
    /\ FreshPage
    /\ delays' = 0
    /\ orphans' = 0
    /\ UNCHANGED <<report, route, savedTheme, setIsDarkQueue, strict>>
    /\ Plain(Op("reload"))

(***************************************************************************)
(* Specifications.  Each explores the whole viewer or one of its stages;   *)
(* the history variables tell apart the events that stage is about.        *)
(***************************************************************************)
TransformOps == {"zoomIn", "zoomOut", "rotate", "reset"}
PointerOps == {"gesture", "mouseDown", "mouseMove", "touchStart", "touchMove",
               "mouseUp", "mouseLeave", "touchEnd"}
KeyOps == {"keyDown"}
ExportOps == {"save", "saveNoSurface"}

\* a drag from the origin and back, for the stages the tracker only feeds
SimpleDrag ==
    \/ MouseDown(Origin)
    \/ \E p \in {Origin, Aside} : MouseMove(p)
    \/ MouseUp

\* Transform state and command router; closing the viewer is left to
\* SpecKeys
Init == Start(TransformOps)

Next ==
    \/ OpenViewer
    \/ \E d \in {"in", "out"} : ZoomButton(d)
    \/ RotateButton
    \/ ContrastSlider(200)
    \/ BrightnessSlider(50)
    \/ ResetButton
    \/ SimpleDrag
    \/ \E k \in Keys \ {"Escape"}, t \in Targets : KeyDown(k, t)

Spec == Init /\ [][Next]_vars

\* The filter and transform handlers, called with any number, next to a
\* drag and the loading of the image
FilterOps == {"zoomIn", "zoomOut", "rotate", "setContrast", "setBrightness"}

InitFilter == Start(FilterOps)

NextFilter ==
    \/ OpenViewer
    \/ ImgOnLoad
    \/ ImgOnError
    \/ ~RatAbove(viewerState.zoom, 6, 5) /\ ZoomButton("in")
    \/ ~RatBelow(viewerState.zoom, 1, 1) /\ ZoomButton("out")
    \/ RotateButton
    \/ \E value \in Percents : ContrastSlider(value)
    \/ \E value \in Percents : BrightnessSlider(value)
    \/ SimpleDrag

SpecFilter == InitFilter /\ [][NextFilter]_vars

\* The keydown listener of the viewer through mounts (in both builds),
\* renders of the page under an open viewer, and unmounts
ListenerOps == {"keyDown", "keyUnheard"}

InitListener == StartIn(ListenerOps, BOOLEAN)

NextListener ==
    \/ OpenViewer
    \/ CloseButton
    \/ ImgOnLoad
    \/ SaveButton(TRUE, TRUE)
    \/ \E k \in {"r", "Escape", "a"}, t \in Targets : KeyDown(k, t)
    \/ \E t \in Targets :
            ~RatAbove(viewerState.zoom, 6, 5) /\ KeyDown("+", t)
    \/ \E t \in Targets :
            ~RatBelow(viewerState.zoom, 1, 1) /\ KeyDown("-", t)
    \/ \E checked \in BOOLEAN : ConsentCheckbox(checked)
    \/ \E f \in {Picture, Dicom} : handleFileSelect(f)
    \/ FileRead(Picture)
    \/ UploadReset
    \/ toggleTheme
    \/ Rerender

SpecListener == InitListener /\ [][NextListener]_vars

\* Pointer / touch tracker around the zoom threshold: zoom commands are
\* explored while the zoom stays between 1/1.2 and 1.44
InitPointer == Start(PointerOps)

NextPointer ==
    \/ OpenViewer
    \/ ~RatAbove(viewerState.zoom, 6, 5) /\ ZoomButton("in")
    \/ ~RatBelow(viewerState.zoom, 1, 1) /\ ZoomButton("out")
    \/ ResetButton
    \/ \E p \in Points : MouseDown(p)
    \/ \E p \in Points : MouseMove(p)
    \/ MouseUp
    \/ MouseLeave
    \/ \E p \in Points, n \in TouchCounts : TouchStart(p, n)
    \/ \E p \in Points, n \in TouchCounts : TouchMove(p, n)
    \/ TouchEnd

SpecPointer == InitPointer /\ [][NextPointer]_vars

\* Keyboard command router
InitKeys == Start(KeyOps)

NextKeys ==
    \/ OpenViewer
    \/ CloseButton
    \/ \E k \in Keys, t \in Targets : KeyDown(k, t)
    \/ SimpleDrag

SpecKeys == InitKeys /\ [][NextKeys]_vars

\* Bake / export stage
InitExport == Start(ExportOps)

NextExport ==
    \/ OpenViewer
    \/ ImgOnLoad
    \/ ImgOnError
    \/ \E d \in {"in", "out"} : ZoomButton(d)
    \/ RotateButton
    \/ ContrastSlider(200)
    \/ BrightnessSlider(50)
    \/ SimpleDrag
    \/ \E ctx \in BOOLEAN, avail \in BOOLEAN : SaveButton(ctx, avail)

SpecExport == InitExport /\ [][NextExport]_vars

\* The viewer as the upload page mounts it, unmounts it and changes its
\* imageSrc; zoom commands are explored between 1/1.2 and 1.44
MountOps == {"open", "mount", "select", "fileRead", "load", "error"}

InitMount == Start(MountOps)

NextMount ==
    \/ OpenViewer
    \/ CloseButton
    \/ ImgOnLoad
    \/ ImgOnError
    \/ \E f \in {Picture, Damaged, Dicom} : handleFileSelect(f)
    \/ \E f \in {Picture, Damaged} : FileRead(f)
    \/ UploadReset
    \/ ~RatAbove(viewerState.zoom, 6, 5) /\ ZoomButton("in")
    \/ ~RatBelow(viewerState.zoom, 1, 1) /\ ZoomButton("out")
    \/ RotateButton
    \/ ResetButton
    \/ SimpleDrag
    \/ \E k \in {"r", "0"} : KeyDown(k, "body")

SpecMount == InitMount /\ [][NextMount]_vars

\* File selection on the upload page, the viewer staying closed
SelectOps == {"select"}

InitSelect == EmptyPage(SelectOps)

NextSelect ==
    \/ \E f \in Files : handleFileSelect(f)
    \/ \E f \in Files : FileRead(f)
    \/ \E checked \in BOOLEAN : ConsentCheckbox(checked)
    \/ handleAnalyze
    \/ UploadReset

SpecSelect == InitSelect /\ [][NextSelect]_vars

\* Consent and the simulated analysis
AnalyzeOps == {"analyze", "analysisDone", "analysisFailed", "orphanFailed"}

InitAnalyze == EmptyPage(AnalyzeOps)

NextAnalyze ==
    \/ \E f \in {Picture, Dicom, Text} : handleFileSelect(f)
    \/ FileRead(Picture)
    \/ \E checked \in BOOLEAN : ConsentCheckbox(checked)
    \/ handleAnalyze
    \/ AnalysisDone
    \/ \E own \in BOOLEAN : AnalysisFailed(own)
    \/ UploadReset
    \/ \E r \in {"/", "/upload", "/report"} : Navigate(r)

SpecAnalyze == InitAnalyze /\ [][NextAnalyze]_vars

\* a delay that has been started runs out: the timer of the awaited promise
\* fires whatever else the user does, and the rest of handleAnalyze follows
TimerFires == AnalysisDone \/ \E own \in BOOLEAN : AnalysisFailed(own)

SpecAnalyzeFair == SpecAnalyze /\ WF_vars(TimerFires)

\* Theme provider: page loads in either build, at any route, with any
\* stored theme
ThemeOps == {"mountEffects", "rerender", "toggleTheme", "navigate", "reload"}

InitTheme == \E r \in {"/", "/upload", "/report"} : Loaded(ThemeOps, r)

NextTheme ==
    \/ MountEffects
    \/ Rerender
    \/ toggleTheme
    \/ \E r \in {"/", "/upload", "/report"} : Navigate(r)
    \/ Reload

SpecTheme == InitTheme /\ [][NextTheme]_vars

(***************************************************************************)
(* Properties.                                                             *)
(***************************************************************************)
ViewerVars == <<viewerState, isDragging, dragStart, panOffset, isImageLoaded,
                isImageError>>

ZoomInRange ==
    /\ ~RatBelow(viewerState.zoom, 1, 10)
    /\ ~RatAbove(viewerState.zoom, 5, 1)

\* the step is the event named op
Did(op) == lastOp'.op = op

ZoomInStep ==
    Did("zoomIn") =>
        /\ viewerState'.zoom = IF RatAbove(Times12(viewerState.zoom), 5, 1)
                               THEN Frac(5, 1) ELSE Times12(viewerState.zoom)
        /\ viewerState.zoom = Frac(5, 1) => viewerState'.zoom = viewerState.zoom

ZoomOutStep ==
    Did("zoomOut") =>
        /\ viewerState'.zoom = IF RatBelow(Over12(viewerState.zoom), 1, 10)
                               THEN Frac(1, 10) ELSE Over12(viewerState.zoom)
        /\ viewerState.zoom = Frac(1, 10) => viewerState'.zoom = viewerState.zoom

\* C1: in every reachable state 0.1 <= zoom <= 5; a zoomIn step yields
\* min(zoom * 1.2, 5) and a zoomOut step max(zoom / 1.2, 0.1); a zoom command
\* issued at its bound leaves zoom unchanged.
C1_ZoomStaysInRange ==
    /\ []ZoomInRange
    /\ [][ZoomInStep /\ ZoomOutStep]_vars

\* a zoomIn has just saturated at 5, after the user has panned
C1_Witness ==
    /\ lastOp.op = "zoomIn"
    /\ viewerState.zoom = Frac(5, 1)
    /\ panOffset # Origin

Rotations == {0, 90, 180, 270}

\* C2: rotation is always one of 0, 90, 180, 270; a rotate step maps r to
\* (r + 90) mod 360; four rotations in a row give back the state they began
\* from.
C2_RotationCycle ==
    /\ [](viewerState.rotation \in Rotations)
    /\ [](handleRotate(handleRotate(handleRotate(handleRotate(viewerState))))
            = viewerState)
    /\ [][Did("rotate") =>
            /\ viewerState'.rotation = (viewerState.rotation + 90) % 360
            /\ viewerState'.rotation # viewerState.rotation]_vars

\* a rotate has just wrapped from 270 to 0
C2_Witness ==
    /\ lastOp.op = "rotate"
    /\ viewerState.rotation = 0

\* C3: right after reset the state is zoom 1, rotation 0, contrast 100,
\* brightness 100, panOffset (0,0); a second reset right after the first
\* changes nothing.
C3_ResetRestoresDefaults ==
    /\ [](lastOp.op = "reset" =>
            /\ viewerState = [zoom |-> Frac(1, 1), rotation |-> 0,
                              contrast |-> 100, brightness |-> 100]
            /\ panOffset = [x |-> 0, y |-> 0])
    /\ [][lastOp.op = "reset" /\ Did("reset") => ViewerVars' = ViewerVars]_vars

\* a reset issued in the middle of a drag
C3_Witness ==
    /\ lastOp.op = "reset"
    /\ isDragging
    /\ dragStart # Origin

PressOps == {"mouseDown", "touchStart"}
MoveOps == {"mouseMove", "touchMove"}

\* C4: a press while zoom <= 1 starts no gesture session (isDragging,
\* dragStart and panOffset keep their values), and while the interaction
\* begun by such a press lasts no move changes panOffset, whatever the zoom
\* has become in the meantime.
C4_PressAtLowZoomIsNoOp ==
    /\ [][lastOp'.op \in PressOps /\ ~ZoomAboveOne =>
            UNCHANGED <<isDragging, dragStart, panOffset>>]_vars
    /\ [][gesture = "rejected" /\ lastOp'.op \in MoveOps =>
            panOffset' = panOffset]_vars
    /\ [](gesture = "rejected" => ~isDragging)

\* a move to another position, at zoom > 1 and with an offset from an
\* earlier drag, within an interaction whose press came at zoom <= 1
C4_Witness ==
    /\ gesture = "rejected"
    /\ lastOp.op = "mouseMove"
    /\ lastOp.at = [x |-> 0, y |-> 1]
    /\ ZoomAboveOne
    /\ panOffset = [x |-> 1, y |-> 0]

\* C5: at zoom > 1 a press at p with panOffset o starts a session with
\* origin p - o and leaves panOffset alone; the move to q that follows it
\* sets panOffset to o + (q - p), so a move to p keeps o.
C5_DragFollowsPointer ==
    /\ [][lastOp'.op \in PressOps /\ lastOp'.touches = 1 /\ ZoomAboveOne =>
            /\ isDragging'
            /\ dragStart' = [x |-> lastOp'.at.x - panOffset.x,
                             y |-> lastOp'.at.y - panOffset.y]
            /\ panOffset' = panOffset]_vars
    /\ [][/\ lastOp.op \in PressOps /\ lastOp.touches = 1 /\ ZoomAboveOne
          /\ lastOp'.op \in MoveOps /\ lastOp'.touches = 1
          => panOffset' = [x |-> panOffset.x + (lastOp'.at.x - lastOp.at.x),
                           y |-> panOffset.y + (lastOp'.at.y - lastOp.at.y)]]_vars

\* a drag that added (0,1) to the offset (1,0) an earlier gesture had left
C5_Witness ==
    /\ lastOp.op = "mouseMove"
    /\ isDragging
    /\ ZoomAboveOne
    /\ panOffset = [x |-> 1, y |-> 1]
    /\ dragStart = [x |-> -1, y |-> 0]

\* C6: a key press whose target is not the document body changes neither
\* the transform state nor panOffset, does not close the viewer and does not
\* suppress the default action.
C6_KeysElsewhereIgnored ==
    [][Did("keyDown") /\ lastOp'.target # "body" =>
            /\ viewerState' = viewerState
            /\ panOffset' = panOffset
            /\ showViewer' = showViewer
            /\ defaultPrevented' = FALSE]_vars

\* '0' typed into a field while the view is zoomed, rotated and panned
C6_Witness ==
    /\ lastOp.op = "keyDown"
    /\ lastOp.target = "input"
    /\ lastOp.key = "0"
    /\ ZoomAboveOne
    /\ viewerState.rotation = 90
    /\ panOffset # Origin
    /\ showViewer

Untouched(vs) == UNCHANGED <<vs, preview>>

\* C7: on the document body '+' and '=' act as zoomIn, '-' as zoomOut, 'r'
\* and 'R' as rotate, '0' as reset, Escape closes the viewer and leaves the
\* transform state alone; each of them suppresses the default action; any
\* other key changes nothing and suppresses nothing.
C7_KeyRouting ==
    [][Did("keyDown") /\ lastOp'.target = "body" =>
        LET k == lastOp'.key IN
        /\ k \in {"+", "="} =>
              /\ viewerState' = handleZoom(viewerState, "in")
              /\ Untouched(<<isDragging, dragStart, panOffset, isImageLoaded,
                             isImageError, showViewer>>)
        /\ k = "-" =>
              /\ viewerState' = handleZoom(viewerState, "out")
              /\ Untouched(<<isDragging, dragStart, panOffset, isImageLoaded,
                             isImageError, showViewer>>)
        /\ k \in {"r", "R"} =>
              /\ viewerState' = handleRotate(viewerState)
              /\ Untouched(<<isDragging, dragStart, panOffset, isImageLoaded,
                             isImageError, showViewer>>)
        /\ k = "0" =>
              /\ viewerState' = InitialViewerState
              /\ panOffset' = Origin
              /\ Untouched(<<isDragging, dragStart, isImageLoaded,
                             isImageError, showViewer>>)
        /\ k = "Escape" =>
              /\ showViewer /\ ~showViewer'
              /\ Untouched(ViewerVars)
        /\ defaultPrevented' = (k \in {"+", "=", "-", "r", "R", "0", "Escape"})
        /\ k \notin {"+", "=", "-", "r", "R", "0", "Escape"} =>
              Untouched(<<ViewerVars, showViewer>>)]_vars

\* '=' on the body has just zoomed a rotated, panned view in to the limit
C7_Witness ==
    /\ lastOp.op = "keyDown"
    /\ lastOp.target = "body"
    /\ lastOp.key = "="
    /\ defaultPrevented
    /\ viewerState.zoom = Frac(5, 1)
    /\ viewerState.rotation = 270
    /\ panOffset # Origin

SaveOps == {"save", "saveNoSurface"}

\* onSave has just been handed a canvas
Exported == lastOp.op = "save" /\ preview.kind = "baked"

\* C8: Save Image does nothing (no onSave call, no state change) when the
\* image has not finished loading, when the error placeholder is shown, or
\* when no 2D context is obtained.
C8_ExportNoOpWhenUnavailable ==
    [][/\ lastOp'.op \in SaveOps
       /\ \/ ~isImageLoaded
          \/ isImageError
          \/ lastOp'.op = "saveNoSurface"
       => /\ preview' = preview
          /\ showViewer' = showViewer
          /\ ViewerVars' = ViewerVars]_vars

\* C9 as claimed: the canvas a loaded image is exported to has extents
\* exactly naturalWidth * zoom and naturalHeight * zoom.
C9_ExtentsAreExactProducts ==
    Exported /\ preview.bake.painted =>
        /\ TimesIs(preview.bake.dw.n, viewerState.zoom, preview.bake.width)
        /\ TimesIs(preview.bake.dh.n, viewerState.zoom, preview.bake.height)

\* m is the integer part of n * r
IntegerPartOf(m, n, r) ==
    /\ BigLeq(BigMulSmall(r.den, m), BigMulSmall(r.num, n))
    /\ BigLess(BigMulSmall(r.num, n), BigMulSmall(r.den, m + 1))

\* C9: for every zoom and rotation the canvas is naturalWidth * zoom wide
\* and naturalHeight * zoom high, each cut to its integer part; the rotation
\* never exchanges or alters the extents, and an image that was loaded is
\* taken at its natural size.
C9_ExtentsAreTruncatedProducts ==
    Exported =>
        /\ IntegerPartOf(preview.bake.width, preview.bake.dw.n, viewerState.zoom)
        /\ IntegerPartOf(preview.bake.height, preview.bake.dh.n, viewerState.zoom)
        /\ preview.bake.angle = viewerState.rotation
        /\ preview.bake.painted =>
              /\ preview.bake.dw.n = MaxNatural
              /\ preview.bake.dh.n = MaxNatural - 1

\* a loaded image exported after a quarter turn at a zoom that gives
\* fractional products
C9_Witness ==
    /\ Exported
    /\ preview.bake.painted
    /\ viewerState.rotation = 90
    /\ ~TimesIs(preview.bake.dw.n, viewerState.zoom, preview.bake.width)
    /\ ~TimesIs(preview.bake.dh.n, viewerState.zoom, preview.bake.height)
    /\ preview.bake.width # preview.bake.height

PanSquare == [x : (0 - MaxPan)..MaxPan, y : (0 - MaxPan)..MaxPan]

\* C10: what onSave receives is what any state with the same image, zoom,
\* rotation, contrast and brightness but another panOffset would have
\* produced.
C10_ExportIgnoresPan ==
    Exported =>
        \A pan \in PanSquare :
            preview.bake = handleSave(viewerState, pan, preview.bake.dw.n,
                                      preview.bake.dh.n, preview.bake.painted)

\* an export made in the middle of a drag that had moved the view
C10_Witness ==
    /\ Exported
    /\ preview.bake.painted
    /\ panOffset # Origin
    /\ isDragging
    /\ ZoomAboveOne

\* C11 as claimed, for a loaded image: Save Image leaves zoom, rotation,
\* contrast, brightness and panOffset as they were, and leaves both the
\* image the viewer was given and the selected file as they were.
C11_ExportLeavesSourceImage ==
    [][lastOp'.op \in SaveOps /\ isImageLoaded =>
          /\ viewerState' = viewerState
          /\ panOffset' = panOffset
          /\ fileInfo' = fileInfo
          /\ preview' = preview]_vars

\* C11: Save Image leaves zoom, rotation, contrast, brightness, panOffset
\* and the selected file as they were; when it hands a canvas to onSave, the
\* page takes that canvas as the preview of the file, in place of the image
\* the viewer was given, and closes the viewer.
C11_ExportLeavesViewAndFile ==
    [][lastOp'.op \in SaveOps =>
          /\ viewerState' = viewerState
          /\ panOffset' = panOffset
          /\ fileInfo' = fileInfo
          /\ \/ preview' = preview /\ showViewer' = showViewer
             \/ /\ preview'.kind = "baked"
                /\ preview'.bake.angle = viewerState.rotation
                /\ preview.kind # "baked"
                /\ ~showViewer']_vars

\* a loaded image has been exported from a zoomed, turned, filtered and
\* panned view
C11_Witness ==
    /\ Exported
    /\ preview.bake.painted
    /\ ZoomAboveOne
    /\ viewerState.rotation = 180
    /\ viewerState.contrast = 200
    /\ panOffset = Aside
    /\ fileInfo = Picture

\* the step mounts a viewer / a viewer was just mounted
Mounts == lastOp'.op \in {"open", "mount"}
JustMounted == lastOp.op \in {"open", "mount"} /\ ViewerMounted

\* C12: a viewer mounted with an empty imageSrc shows the error placeholder
\* from its first render: it is not loading, not loaded, and no image
\* request is under way.
C12_EmptySourceIsErrorAtOnce ==
    JustMounted /\ preview.kind = "none" =>
        /\ isImageError
        /\ ~isImageLoaded
        /\ imgRequest = "none"

\* C13: once a viewer instance has seen a decode error it shows the error
\* placeholder for as long as it is mounted: no operation, key, gesture or
\* change of imageSrc clears the error, no img element is rendered again
\* and so no load event reaches that instance.
C13_ErrorIsTerminal ==
    /\ [][isImageError /\ ViewerMounted /\ ~Mounts =>
            /\ isImageError'
            /\ ~ImgMounted'
            /\ lastOp'.op # "load"]_vars
    /\ [](isImageError => imgRequest = "none")

\* a viewer in the error state has been handed a decodable picture, after
\* the user had turned the view
C13_Witness ==
    /\ lastOp.op = "fileRead"
    /\ ViewerMounted
    /\ isImageError
    /\ fileInfo = Picture
    /\ preview.kind = "image"
    /\ viewerState.rotation = 90

\* the capital of each letter the accepted extensions are written with
Capital == [d |-> "D", c |-> "C", m |-> "M", j |-> "J", p |-> "P",
            g |-> "G", e |-> "E", n |-> "N"]

\* name ends with ext, capitals and small letters taken as the same
HasExtension(name, ext) ==
    /\ Len(name) >= Len(ext)
    /\ \A i \in 1..Len(ext) :
          LET ch == name[Len(name) - Len(ext) + i]
          IN  \/ ch = ext[i]
              \/ ext[i] \in DOMAIN Capital /\ ch = Capital[ext[i]]

HasListedExtension(name) ==
    \/ HasExtension(name, <<".", "d", "c", "m">>)
    \/ HasExtension(name, <<".", "j", "p", "g">>)
    \/ HasExtension(name, <<".", "j", "p", "e", "g">>)
    \/ HasExtension(name, <<".", "p", "n", "g">>)

HasListedType(type) ==
    \/ type = [top |-> "image", sub |-> "jpeg"]
    \/ type = [top |-> "image", sub |-> "jpg"]
    \/ type = [top |-> "image", sub |-> "png"]
    \/ type = [top |-> "application", sub |-> "dicom"]
    \/ type = [top |-> "application", sub |-> "octet-stream"]

Acceptable(file) ==
    /\ HasListedExtension(file.name) \/ HasListedType(file.type)
    /\ file.size < 52428801

\* C14: validateFile accepts a file exactly when its name, lowercased, ends
\* with .dcm, .jpg, .jpeg or .png or its type is one of the five listed,
\* and its size is at most 52,428,800 bytes; a selection raises the alert
\* exactly when the file is not acceptable, and only acceptable files are
\* ever selected.
C14_ValidateFileRule ==
    /\ [](\A file \in AllFiles : validateFile(file) <=> Acceptable(file))
    /\ [][Did("select") => (lastOp'.alert <=> ~Acceptable(lastOp'.file))]_vars
    /\ [](fileInfo # NoFile => Acceptable(fileInfo))

\* a file of exactly 50 MiB with its extension in capitals and a type that
\* is not listed has been selected
C14_Witness ==
    /\ lastOp.op = "select"
    /\ ~lastOp.alert
    /\ fileInfo = lastOp.file
    /\ fileInfo.name = <<"S", ".", "P", "N", "G">>
    /\ fileInfo.type = [top |-> "text", sub |-> "plain"]
    /\ fileInfo.size = 52428800

\* C15: the selected file always has a name ending with .dcm, .jpg, .jpeg
\* or .png, whatever its type and size.
C15_OnlyListedExtensionsSelected ==
    fileInfo # NoFile => HasListedExtension(fileInfo.name)

\* C16: a selection that fails validation raises the alert and leaves the
\* selected file, its preview, the consent flag, the analysis flag and the
\* rest of the page as they were; every selection of a file that is not
\* acceptable ends so.
C16_RejectionChangesNothing ==
    /\ [][lastOp'.alert =>
            UNCHANGED <<fileInfo, preview, hasConsent, isAnalyzing, reading,
                        delays, report, route, showViewer>>]_vars
    /\ [][Did("select") /\ ~Acceptable(lastOp'.file) => lastOp'.alert]_vars

\* an oversized file has been turned down while another file was selected,
\* consent was given and an analysis was running
C16_Witness ==
    /\ lastOp.op = "select"
    /\ lastOp.alert
    /\ lastOp.file.size > 52428800
    /\ fileInfo \notin {NoFile, lastOp.file}
    /\ preview.kind = "image"
    /\ hasConsent
    /\ isAnalyzing

\* C17: isAnalyzing turns true, and a delay is started, only by Analyze in a
\* state with a file selected and the consent box checked; Analyze in such
\* a state does both, and Analyze with no file or without consent changes
\* nothing.
C17_AnalysisNeedsFileAndConsent ==
    /\ [][(isAnalyzing' /\ ~isAnalyzing) \/ delays' > delays =>
            /\ Did("analyze")
            /\ fileInfo # NoFile
            /\ hasConsent]_vars
    /\ [][Did("analyze") /\ fileInfo # NoFile /\ hasConsent =>
            /\ isAnalyzing'
            /\ delays' = delays + 1]_vars
    /\ [][Did("analyze") /\ (fileInfo = NoFile \/ ~hasConsent) =>
            UNCHANGED <<fileInfo, preview, reading, hasConsent, isAnalyzing,
                        delays, report, route, showViewer>>]_vars

\* Analyze has been invoked on a selected picture with the consent box
\* unchecked, after an earlier analysis had produced its report
C17_Witness ==
    /\ lastOp.op = "analyze"
    /\ fileInfo = Picture
    /\ ~hasConsent
    /\ ~isAnalyzing
    /\ delays = 0
    /\ report

\* C18: the report is stored and the report page entered only in a state
\* where a file is selected and the consent box is checked.
C18_ReportNeedsConsentThen ==
    [][Did("analysisDone") => fileInfo # NoFile /\ hasConsent]_vars

\* C19: once the theme has settled after a load that found 'dark' stored,
\* or after the user last asked for dark, isDark is true and the stored key
\* holds 'dark'.
C19_DarkPreferenceSurvives ==
    Settled /\ preference = "dark" => isDark /\ savedTheme = "dark"

\* the step is a move of the mouse or of a single touch
SingleMove == lastOp'.op \in MoveOps /\ lastOp'.touches = 1

\* C20 as claimed: while a session is active every move sets panOffset to
\* the pointer position minus the origin, whatever zoom commands came in
\* between.
C20_EveryMovePans ==
    [][isDragging /\ SingleMove =>
          panOffset' = [x |-> lastOp'.at.x - dragStart.x,
                        y |-> lastOp'.at.y - dragStart.y]]_vars

\* C20: while a session is active every move made while zoom > 1 sets
\* panOffset to the pointer position minus the origin and leaves the origin
\* and the session alone, also after zoom commands issued during the drag;
\* a move made while zoom <= 1, with two touches or outside a session
\* leaves panOffset as it was.
C20_MovePansWhileZoomed ==
    /\ [][isDragging /\ SingleMove /\ ZoomAboveOne =>
            /\ panOffset' = [x |-> lastOp'.at.x - dragStart.x,
                             y |-> lastOp'.at.y - dragStart.y]
            /\ dragStart' = dragStart
            /\ isDragging']_vars
    /\ [][/\ lastOp'.op \in MoveOps
          /\ ~isDragging \/ ~ZoomAboveOne \/ lastOp'.touches # 1
          => panOffset' = panOffset]_vars

\* a session was begun at zoom > 1 with an offset already in place, the
\* zoom was then taken down to 1 or less, and a move has been ignored
C20_Witness ==
    /\ lastOp.op = "mouseMove"
    /\ gesture = "accepted"
    /\ isDragging
    /\ ~ZoomAboveOne
    /\ dragStart = [x |-> -1, y |-> 0]
    /\ lastOp.at = [x |-> 0, y |-> 1]
    /\ panOffset = [x |-> 1, y |-> 0]

ReleaseOps == {"mouseUp", "mouseLeave", "touchEnd"}

\* C21: a mouse up, a touch end or a mouse leave always leaves the tracker
\* Idle (isDragging false) and changes nothing else of the viewer; while the
\* tracker is Idle no move changes panOffset, and it leaves Idle only by a
\* single-pointer press at zoom > 1; a release or leave in Idle changes
\* nothing at all.
C21_ReleaseReturnsToIdle ==
    /\ [][lastOp'.op \in ReleaseOps =>
            /\ ~isDragging'
            /\ UNCHANGED <<viewerState, dragStart, panOffset, isImageLoaded,
                           isImageError, showViewer, fileInfo>>]_vars
    /\ [][~isDragging /\ lastOp'.op \in MoveOps =>
            panOffset' = panOffset /\ ~isDragging']_vars
    /\ [][~isDragging /\ isDragging' =>
            /\ lastOp'.op \in PressOps
            /\ lastOp'.touches = 1
            /\ ZoomAboveOne]_vars
    /\ [][~isDragging /\ lastOp'.op \in ReleaseOps =>
            UNCHANGED <<ViewerVars, showViewer>>]_vars

\* the pointer left the container during a drag that had set the offset
\* (1,0), and then moved on to (0,1) at zoom > 1: the offset is kept
C21_Witness ==
    /\ lastOp.op = "mouseMove"
    /\ lastOp.at = [x |-> 0, y |-> 1]
    /\ gesture = "none"
    /\ ~isDragging
    /\ ZoomAboveOne
    /\ panOffset = [x |-> 1, y |-> 0]
    /\ dragStart = [x |-> 0, y |-> 0]

NoTranslation == [x |-> Scaled(0, One), y |-> Scaled(0, One)]

\* C22: whenever the image is displayed with zoom <= 1, the translation in
\* its transform is (0,0), whatever panOffset an earlier drag at zoom > 1
\* has left.
C22_NoTranslationAtLowZoom ==
    ViewerMounted /\ isImageLoaded /\ ~isImageError /\ ~ZoomAboveOne =>
        imgStyle(viewerState, panOffset).translate = NoTranslation

\* C23: an analysis in progress always comes to an end (isAnalyzing is
\* false again later), whether its delay is followed by success or by a
\* throw; when it throws an alert is raised, isAnalyzing is false
\* afterwards, the page is not left, no report is stored and the file and
\* the consent are as they were; when it succeeds the page it leaves behind
\* is not analyzing either.
C23_AnalysisReturnsToIdle ==
    /\ isAnalyzing ~> ~isAnalyzing
    /\ [][Did("analysisFailed") =>
            /\ lastOp'.alert
            /\ ~isAnalyzing'
            /\ UNCHANGED <<route, report, fileInfo, preview, hasConsent>>]_vars
    /\ [][Did("orphanFailed") =>
            lastOp'.alert /\ UNCHANGED <<route, report>>]_vars
    /\ [][Did("analysisDone") => ~isAnalyzing']_vars

\* the analysis of a picture, started with consent, has just failed: the
\* page is still shown with the picture and the consent, and is idle
C23_Witness ==
    /\ lastOp.op = "analysisFailed"
    /\ lastOp.alert
    /\ route = "/upload"
    /\ fileInfo = Picture
    /\ hasConsent
    /\ ~isAnalyzing
    /\ ~report
    /\ delays = 0

\* C24: a touch start with a touch count other than 1 leaves isDragging,
\* dragStart and panOffset as they were, and a touch move with a touch
\* count other than 1 leaves panOffset (and the rest of the viewer state)
\* as it was and does not suppress the default action, at any zoom and
\* whether a session is active or not.
C24_MultiTouchIgnored ==
    /\ [][Did("touchStart") /\ lastOp'.touches # 1 =>
            UNCHANGED <<ViewerVars, showViewer>>]_vars
    /\ [][Did("touchMove") /\ lastOp'.touches # 1 =>
            /\ UNCHANGED <<ViewerVars, showViewer>>
            /\ ~defaultPrevented']_vars

\* a two-finger move to (0,1) during an active single-touch session at
\* zoom > 1 that had dragged the image to (1,0)
C24_Witness ==
    /\ lastOp.op = "touchMove"
    /\ lastOp.touches = 2
    /\ lastOp.at = [x |-> 0, y |-> 1]
    /\ isDragging
    /\ ZoomAboveOne
    /\ gesture = "accepted"
    /\ panOffset = [x |-> 1, y |-> 0]
    /\ dragStart = Origin

AroundTransform ==
    <<panOffset, isDragging, dragStart, isImageLoaded, isImageError,
      showViewer, fileInfo, preview>>

\* C26: a zoom step changes at most the zoom field of viewerState, a
\* rotation only rotation, a contrast change only contrast and a brightness
\* change only brightness; each leaves panOffset, isDragging, dragStart,
\* isImageLoaded and isImageError as they were.
C26_OneFieldPerMutation ==
    /\ [][Did("zoomIn") \/ Did("zoomOut") =>
            /\ viewerState' = [viewerState EXCEPT !.zoom = viewerState'.zoom]
            /\ UNCHANGED AroundTransform]_vars
    /\ [][Did("rotate") =>
            /\ viewerState' =
                  [viewerState EXCEPT !.rotation = viewerState'.rotation]
            /\ UNCHANGED AroundTransform]_vars
    /\ [][Did("setContrast") =>
            /\ viewerState' =
                  [viewerState EXCEPT !.contrast = viewerState'.contrast]
            /\ UNCHANGED AroundTransform]_vars
    /\ [][Did("setBrightness") =>
            /\ viewerState' =
                  [viewerState EXCEPT !.brightness = viewerState'.brightness]
            /\ UNCHANGED AroundTransform]_vars

\* the contrast was set to 200 on a loaded image that is zoomed, rotated,
\* dimmed and in the middle of a drag that has moved it
C26_Witness ==
    /\ lastOp.op = "setContrast"
    /\ viewerState.contrast = 200
    /\ viewerState.brightness = 50
    /\ viewerState.rotation = 90
    /\ ZoomAboveOne
    /\ panOffset = Aside
    /\ isDragging
    /\ isImageLoaded

\* C27: from a reset issued during an active drag until the next press
\* that starts a gesture, or the release, panOffset is (0,0), whatever zoom
\* steps and moves come in between.
C27_ResetOutlastsDrag ==
    gesture = "reset" => panOffset = Origin

\* C28: no more than one simulated analysis is in flight, and whenever a
\* delay of the page shown is pending that page has isAnalyzing true.
C28_OneAnalysisShownBusy ==
    /\ delays + orphans <= 1
    /\ delays > 0 => isAnalyzing

\* C29: once no preview read is pending, the file shown as selected is the
\* valid file the user selected last, with the preview made from it.
C29_LastSelectionWins ==
    reading = {} /\ latest # NoFile =>
        fileInfo = latest /\ preview = createFilePreview(latest)

\* C30: while the viewer is mounted the document holds exactly one of its
\* keydown listeners, and none while it is not; so a key press is handled
\* only with the viewer mounted, a handled '+', '=', '-', 'r' or 'R' applies
\* its operation to the state once, and a key pressed with the viewer
\* closed changes nothing and suppresses nothing.
C30_OneKeydownListener ==
    /\ [](ViewerMounted => keydownListeners = 1)
    /\ [](~ViewerMounted => keydownListeners = 0)
    /\ [][Did("keyDown") => ViewerMounted]_vars
    /\ [][Did("keyDown") /\ lastOp'.target = "body" =>
            LET k == lastOp'.key IN
            /\ k \in {"+", "="} =>
                  viewerState' = handleZoom(viewerState, "in")
            /\ k = "-" => viewerState' = handleZoom(viewerState, "out")
            /\ k \in {"r", "R"} => viewerState' = handleRotate(viewerState)
            /\ k = "Escape" => ~showViewer' /\ keydownListeners' = 0]_vars
    /\ [][Did("keyUnheard") =>
            /\ ~ViewerMounted
            /\ UNCHANGED <<ViewerVars, showViewer, fileInfo, preview>>
            /\ ~defaultPrevented']_vars

\* a development build: the viewer was opened on a picture, a .dcm file
\* was selected and the theme switched under it, and 'r' was then pressed
\* twice
C30_Witness ==
    /\ lastOp.op = "keyDown"
    /\ lastOp.key = "r"
    /\ lastOp.target = "body"
    /\ strict
    /\ ViewerMounted
    /\ fileInfo = Dicom
    /\ isDark
    /\ viewerState.rotation = 180
    /\ keydownListeners = 1

====
